---- MODULE Spec2Model ----
(***************************************************************************)
(* A model of puppeteer-cli (src/index.js): the three yargs commands       *)
(* print, screenshot and bulk-print, their handlers, and the option        *)
(* helpers buildLaunchOptions, buildNavigationOptions and buildCookies.    *)
(*                                                                         *)
(* A JavaScript string is a sequence of one-character strings.  An option  *)
(* that may be undefined is a record [set, val].  Every awaited engine     *)
(* call (launch, newPage, setViewport, setCookie, goto, pdf, screenshot,   *)
(* close) and every file-system or stream call either resolves or throws.  *)
(***************************************************************************)
EXTENDS Integers, Sequences, FiniteSets, TLC

\* ------------------------------------------------------------------ bounds

MaxCookieLen == 3
MaxEntries == 3

\* ------------------------------------------------------------- JS values

Undefined == [set |-> FALSE, val |-> <<>>]
Str(s) == [set |-> TRUE, val |-> s]

\* JavaScript truthiness of an optional string: undefined and "" are falsy.
Truthy(o) == o.set /\ o.val # <<>>

\* x || null
OrNull(o) == IF Truthy(o) THEN o ELSE Undefined

SeqsUpTo(A, n) == UNION {[1..k -> A] : k \in 0..n}

\* String.prototype.indexOf(c): 0-based offset of the first c, or -1.
indexOf(s, c) ==
  IF \E i \in 1..Len(s) : s[i] = c
  THEN (CHOOSE i \in 1..Len(s) : s[i] = c /\ \A j \in 1..(i - 1) : s[j] # c) - 1
  ELSE -1

\* String.prototype.substr(start, length), start 0-based.
substr(s, start, length) == SubSeq(s, start + 1, start + length)

\* String.prototype.substr(start): to the end of the string.
substrFrom(s, start) == SubSeq(s, start + 1, Len(s))

Digits == {"0", "1", "2", "3", "4", "5", "6", "7", "8", "9"}

DigitValue(c) ==
  CASE c = "0" -> 0 [] c = "1" -> 1 [] c = "2" -> 2 [] c = "3" -> 3
    [] c = "4" -> 4 [] c = "5" -> 5 [] c = "6" -> 6 [] c = "7" -> 7
    [] c = "8" -> 8 [] c = "9" -> 9

\* parseInt on a string of decimal digits.
RECURSIVE parseInt(_)
parseInt(s) ==
  IF s = <<>> THEN 0
  ELSE 10 * parseInt(SubSeq(s, 1, Len(s) - 1)) + DigitValue(s[Len(s)])

\* \d+ against the whole of s
IsDigitRun(s) == s # <<>> /\ \A i \in 1..Len(s) : s[i] \in Digits

\* argv.viewport.match(/^(?<width>\d+)[xX](?<height>\d+)$/): the offsets at
\* which the separator can stand with \d+ on both sides.
viewportSeparators(s) ==
  {i \in 1..Len(s) : /\ s[i] \in {"x", "X"}
                     /\ IsDigitRun(SubSeq(s, 1, i - 1))
                     /\ IsDigitRun(SubSeq(s, i + 1, Len(s)))}

formatMatch(s) ==
  IF viewportSeparators(s) = {}
  THEN [matched |-> FALSE, width |-> <<>>, height |-> <<>>]
  ELSE LET i == CHOOSE k \in viewportSeparators(s) : TRUE
       IN [matched |-> TRUE,
           width |-> SubSeq(s, 1, i - 1),
           height |-> SubSeq(s, i + 1, Len(s))]

\* footerTemplate.replace(new RegExp('\\\\\"', 'g'), '"'): every backslash
\* followed by a double quote becomes a double quote, scanning left to right.
RECURSIVE unescapeQuotes(_)
unescapeQuotes(s) ==
  IF s = <<>> THEN <<>>
  ELSE IF Len(s) >= 2 /\ s[1] = "\\" /\ s[2] = "\""
       THEN <<"\"">> \o unescapeQuotes(SubSeq(s, 3, Len(s)))
       ELSE <<s[1]>> \o unescapeQuotes(Tail(s))

\* ------------------------------------------------------ option translators

buildLaunchOptionsOneFlag(a) ==
  [args |-> IF a.sandbox = FALSE THEN <<"--no-sandbox">> ELSE <<>>]

buildLaunchOptions(a) ==
  [args |-> IF a.sandbox = FALSE
            THEN <<"--no-sandbox", "--disable-setuid-sandbox">>
            ELSE <<>>]

buildNavigationOptions(a) == [timeout |-> a.timeout, waitUntil |-> a.waitUntil]

\* String.prototype.lastIndexOf(c): 0-based offset of the last c, or -1.
lastIndexOf(s, c) ==
  IF \E i \in 1..Len(s) : s[i] = c
  THEN (CHOOSE i \in 1..Len(s) : s[i] = c /\ \A j \in (i + 1)..Len(s) : s[j] # c) - 1
  ELSE -1

buildCookiesLastColon(a) ==
  LET cookieString == a.cookie.val
      delimiterOffset == lastIndexOf(cookieString, ":")
  IN IF delimiterOffset = -1
     THEN [threw |-> TRUE, value |-> <<>>]
     ELSE [threw |-> FALSE,
           value |-> <<[name |-> substr(cookieString, 0, delimiterOffset),
                        value |-> substrFrom(cookieString, delimiterOffset + 1),
                        url |-> a.url]>>]

\* buildCookies({url, cookie}): [cookie].map(...), which throws when the
\* string holds no ':'.
buildCookies(a) ==
  LET cookieString == a.cookie.val
      delimiterOffset == indexOf(cookieString, ":")
  IN IF delimiterOffset = -1
     THEN [threw |-> TRUE, value |-> <<>>]
     ELSE [threw |-> FALSE,
           value |-> <<[name |-> substr(cookieString, 0, delimiterOffset),
                        value |-> substrFrom(cookieString, delimiterOffset + 1),
                        url |-> a.url]>>]

\* ------------------------------------------------------------------ inputs

CookieAlphabet == {"a", "b", ":"}

CookieInputs ==
  {Undefined} \cup {Str(s) : s \in SeqsUpTo(CookieAlphabet, MaxCookieLen)}

\* --viewport values: absent, empty, well formed (either case of the
\* separator, several digits, a leading zero) and malformed.
ViewportInputs ==
  {Undefined,
   Str(<<>>),
   Str(<<"8", "0", "0", "x", "6", "0", "0">>),
   Str(<<"1", "0", "2", "4", "X", "7", "6", "8">>),
   Str(<<"0", "8", "x", "1">>),
   Str(<<"a", "b", "c", "x", "6", "0", "0">>),
   Str(<<"8", "0", "0">>),
   Str(<<"8", "0", "0", "x">>),
   Str(<<"x", "6", "0", "0">>),
   Str(<<"8", "x", "x", "6">>),
   Str(<<"8", "x", "6", " ">>)}

OutputInputs == {Undefined, Str(<<>>), Str(<<"o", "u", "t">>)}

UrlInputs ==
  {[isUrl |-> TRUE, text |-> "https://example.com"],
   [isUrl |-> FALSE, text |-> "page.html"]}

TemplateInputs == {<<>>, <<"f">>}

\* isUrl(argv.url) ? parseUrl(argv.url).toString() : fileUrl(argv.url)
targetUrl(u) ==
  IF u.isUrl THEN [scheme |-> "asgiven", text |-> u.text]
  ELSE [scheme |-> "file", text |-> u.text]

\* fileUrl(pdf["htmlFile"])
fileUrl(path) == [scheme |-> "file", text |-> path]

\* The yargs defaults of the options no command below varies.
DefaultArgv ==
  [cmd |-> "print", sandbox |-> FALSE, timeout |-> 30000, waitUntil |-> "load",
   cookie |-> Undefined, url |-> [isUrl |-> FALSE, text |-> ""],
   output |-> Undefined, viewport |-> Undefined,
   background |-> TRUE, marginTop |-> "6.25mm", marginRight |-> "6.25mm",
   marginBottom |-> "14.11mm", marginLeft |-> "6.25mm", format |-> "Letter",
   landscape |-> FALSE, displayHeaderFooter |-> FALSE,
   headerTemplate |-> <<>>, footerTemplate |-> <<>>,
   fullPage |-> TRUE, omitBackground |-> FALSE]

PrintArgvs ==
  {[DefaultArgv EXCEPT !.cmd = "print", !.sandbox = sb, !.cookie = c, !.url = u,
                       !.output = o, !.displayHeaderFooter = d,
                       !.footerTemplate = f] :
     sb \in BOOLEAN, c \in CookieInputs, u \in UrlInputs, o \in OutputInputs,
     d \in BOOLEAN, f \in TemplateInputs}

ScreenshotArgvs ==
  {[DefaultArgv EXCEPT !.cmd = "screenshot", !.sandbox = sb, !.cookie = c,
                       !.url = u, !.output = o, !.viewport = v] :
     sb \in BOOLEAN, c \in CookieInputs, u \in UrlInputs, o \in OutputInputs,
     v \in ViewportInputs}

BulkArgvs ==
  {[DefaultArgv EXCEPT !.cmd = "bulk-print", !.sandbox = sb, !.format = "A4"] :
     sb \in BOOLEAN}

\* One entry of the manifest's "data" array.  footerTemplate may be missing.
FooterInputs ==
  {Undefined, Str(<<>>), Str(<<"f">>), Str(<<"\\", "\"", "f", "\\", "\"">>)}

EntryInputs ==
  {[htmlFile |-> d[1], tmpPDFFile |-> d[2],
    pdfObject |-> [isLandscape |-> d[3], footerTemplate |-> ft,
                   footerHeight |-> "20mm"]] :
     d \in {<<"a.html", "a.pdf", FALSE>>, <<"b.html", "b.pdf", TRUE>>},
     ft \in FooterInputs}

\* What argv.batchFile holds: a file that cannot be read, one that is not
\* JSON, a JSON document with no "data" member, or one with a "data" array.
BatchFiles ==
  {[kind |-> k, data |-> <<>>] : k \in {"unreadable", "notjson", "nodata"}}
  \cup {[kind |-> "data", data |-> d] : d \in SeqsUpTo(EntryInputs, MaxEntries)}

NoViewport == [set |-> FALSE, width |-> 0, height |-> 0]

\* ------------------------------------------------------------------- state

VARIABLES
  argv,        \* the parsed command line
  batchFile,   \* the content of the file argv.batchFile names
  pc,          \* the position of the command handler
  config,      \* bulkPrint: the parsed "data" member
  idx,         \* bulkPrint: the entry the for-of loop is at (1-based), 0 before
  browser,     \* "none", "open" or "closed"
  page,        \* the page: open, cookies set, viewport set
  launched,    \* the launch options puppeteer.launch received
  navigated,   \* the urls and navigation options page.goto completed with
  pdfCalls,    \* the options each page.pdf call received
  shotCalls,   \* the options each page.screenshot call received
  files,       \* the paths the engine wrote a render to, in order
  stdout,      \* the number of buffers written to process.stdout
  log,         \* the console.log prefixes, in order
  exitCode,    \* -1 while the process runs, then its exit status
  thrown,      \* the number of errors raised inside the handler
  trace        \* the engine and output calls made, in order

vars == <<argv, batchFile, pc, config, idx, browser, page, launched, navigated,
          pdfCalls, shotCalls, files, stdout, log, exitCode, thrown, trace>>

inputs == <<argv, batchFile>>
loop == <<config, idx>>
engine == <<browser, page, launched, navigated, pdfCalls, shotCalls>>
sinks == <<files, stdout>>
process == <<log, exitCode>>

NoBatch == [kind |-> "unreadable", data |-> <<>>]

Init ==
  /\ \/ argv \in PrintArgvs /\ batchFile = NoBatch
     \/ argv \in ScreenshotArgvs /\ batchFile = NoBatch
     \/ argv \in BulkArgvs /\ batchFile \in BatchFiles
  /\ pc = IF argv.cmd = "bulk-print" THEN "read" ELSE "launch"
  /\ config = [set |-> FALSE, val |-> <<>>]
  /\ idx = 0
  /\ browser = "none"
  /\ page = [open |-> FALSE, cookies |-> <<>>, viewport |-> NoViewport]
  /\ launched = <<>>
  /\ navigated = <<>>
  /\ pdfCalls = <<>>
  /\ shotCalls = <<>>
  /\ files = <<>>
  /\ stdout = 0
  /\ log = <<>>
  /\ exitCode = -1
  /\ thrown = 0
  /\ trace = <<>>

Called(op, ok) == trace' = Append(trace, [op |-> op, n |-> idx, ok |-> ok])

\* An error raised inside the async function: the promise the handler awaits
\* rejects, and control passes to the handler's catch block.
Raise == pc' = "catch" /\ thrown' = thrown + 1

\* A call that threw: nothing but the handler's position changes.
Fails(op) ==
  /\ Called(op, FALSE)
  /\ Raise
  /\ UNCHANGED <<inputs, loop, engine, sinks, process>>

\* ------------------------------------------------------------------- print

\* The options object print hands to page.pdf, with header/footer display
\* forced on by a non-empty footer template (a variant of printPdfOptions).
printPdfOptionsCoupled(a) ==
  [path |-> OrNull(a.output), format |-> a.format, landscape |-> a.landscape,
   printBackground |-> a.background,
   margin |-> [top |-> a.marginTop, right |-> a.marginRight,
               bottom |-> a.marginBottom, left |-> a.marginLeft],
   displayHeaderFooter |-> (a.displayHeaderFooter \/ a.footerTemplate # <<>>),
   headerTemplate |-> a.headerTemplate, footerTemplate |-> a.footerTemplate]

\* The options object print hands to page.pdf.
printPdfOptions(a) ==
  [path |-> OrNull(a.output), format |-> a.format, landscape |-> a.landscape,
   printBackground |-> a.background,
   margin |-> [top |-> a.marginTop, right |-> a.marginRight,
               bottom |-> a.marginBottom, left |-> a.marginLeft],
   displayHeaderFooter |-> a.displayHeaderFooter,
   headerTemplate |-> a.headerTemplate, footerTemplate |-> a.footerTemplate]

\* The engine writes the render to options.path when one is set.
EngineWrites(path) == IF Truthy(path) THEN Append(files, path.val) ELSE files

print_launch ==
  /\ argv.cmd = "print" /\ pc = "launch"
  /\ \/ /\ browser' = "open"
        /\ launched' = Append(launched, buildLaunchOptions(argv))
        /\ Called("launch", TRUE)
        /\ pc' = "newPage"
        /\ UNCHANGED <<inputs, loop, page, navigated, pdfCalls, shotCalls,
                       sinks, process, thrown>>
     \/ Fails("launch")

print_newPage ==
  /\ argv.cmd = "print" /\ pc = "newPage"
  /\ \/ /\ page' = [page EXCEPT !.open = TRUE]
        /\ Called("newPage", TRUE)
        /\ pc' = "cookie"
        /\ UNCHANGED <<inputs, loop, browser, launched, navigated, pdfCalls,
                       shotCalls, sinks, process, thrown>>
     \/ Fails("newPage")

print_setCookie ==
  /\ argv.cmd = "print" /\ pc = "cookie"
  /\ \/ /\ ~Truthy(argv.cookie)
        /\ pc' = "goto"
        /\ UNCHANGED <<inputs, loop, engine, sinks, process, thrown, trace>>
     \/ /\ Truthy(argv.cookie)
        /\ buildCookies(argv).threw
        /\ Fails("buildCookies")
     \/ /\ Truthy(argv.cookie)
        /\ ~buildCookies(argv).threw
        /\ \/ /\ page' = [page EXCEPT
                            !.cookies = @ \o buildCookies(argv).value]
              /\ Called("setCookie", TRUE)
              /\ pc' = "goto"
              /\ UNCHANGED <<inputs, loop, browser, launched, navigated,
                             pdfCalls, shotCalls, sinks, process, thrown>>
           \/ Fails("setCookie")

print_gotoErrorIgnored ==
  /\ argv.cmd = "print" /\ pc = "goto"
  /\ navigated' = navigated
  /\ Called("goto", FALSE)
  /\ pc' = "pdf"
  /\ UNCHANGED <<inputs, loop, browser, page, launched, pdfCalls, shotCalls,
                 sinks, process, thrown>>

print_goto ==
  /\ argv.cmd = "print" /\ pc = "goto"
  /\ \/ /\ navigated' = Append(navigated,
                          [url |-> targetUrl(argv.url),
                           options |-> buildNavigationOptions(argv)])
        /\ Called("goto", TRUE)
        /\ pc' = "pdf"
        /\ UNCHANGED <<inputs, loop, browser, page, launched, pdfCalls,
                       shotCalls, sinks, process, thrown>>
     \/ Fails("goto")

print_pdf ==
  /\ argv.cmd = "print" /\ pc = "pdf"
  /\ \/ /\ pdfCalls' = Append(pdfCalls, printPdfOptions(argv))
        /\ files' = EngineWrites(printPdfOptions(argv).path)
        /\ Called("pdf", TRUE)
        /\ pc' = "stdout"
        /\ UNCHANGED <<inputs, loop, browser, page, launched, navigated,
                       shotCalls, stdout, process, thrown>>
     \/ /\ pdfCalls' = Append(pdfCalls, printPdfOptions(argv))
        /\ Called("pdf", FALSE)
        /\ Raise
        /\ UNCHANGED <<inputs, loop, browser, page, launched, navigated,
                       shotCalls, sinks, process>>

print_stdoutAlways ==
  /\ argv.cmd = "print" /\ pc = "stdout"
  /\ stdout' = stdout + 1
  /\ Called("stdout.write", TRUE)
  /\ pc' = "close"
  /\ UNCHANGED <<inputs, loop, engine, files, process, thrown>>

print_stdout ==
  /\ argv.cmd = "print" /\ pc = "stdout"
  /\ \/ /\ Truthy(argv.output)
        /\ pc' = "close"
        /\ UNCHANGED <<inputs, loop, engine, sinks, process, thrown, trace>>
     \/ /\ ~Truthy(argv.output)
        /\ \/ /\ stdout' = stdout + 1
              /\ Called("stdout.write", TRUE)
              /\ pc' = "close"
              /\ UNCHANGED <<inputs, loop, engine, files, process, thrown>>
           \/ Fails("stdout.write")

print_close ==
  /\ argv.cmd = "print" /\ pc = "close"
  /\ \/ /\ browser' = "closed"
        /\ Called("close", TRUE)
        /\ pc' = "return"
        /\ UNCHANGED <<inputs, loop, page, launched, navigated, pdfCalls,
                       shotCalls, sinks, process, thrown>>
     \/ Fails("close")

print ==
  \/ print_launch \/ print_newPage \/ print_setCookie \/ print_goto
  \/ print_pdf \/ print_stdout \/ print_close

\* -------------------------------------------------------------- screenshot

\* The options object screenshot hands to page.screenshot.
screenshotOptions(a) ==
  [path |-> OrNull(a.output), fullPage |-> a.fullPage,
   omitBackground |-> a.omitBackground]

screenshot_launch ==
  /\ argv.cmd = "screenshot" /\ pc = "launch"
  /\ \/ /\ browser' = "open"
        /\ launched' = Append(launched, buildLaunchOptions(argv))
        /\ Called("launch", TRUE)
        /\ pc' = "newPage"
        /\ UNCHANGED <<inputs, loop, page, navigated, pdfCalls, shotCalls,
                       sinks, process, thrown>>
     \/ Fails("launch")

screenshot_newPage ==
  /\ argv.cmd = "screenshot" /\ pc = "newPage"
  /\ \/ /\ page' = [page EXCEPT !.open = TRUE]
        /\ Called("newPage", TRUE)
        /\ pc' = "viewport"
        /\ UNCHANGED <<inputs, loop, browser, launched, navigated, pdfCalls,
                       shotCalls, sinks, process, thrown>>
     \/ Fails("newPage")

\* if (argv.viewport) { match; if (!formatMatch) process.exit(1); setViewport }
screenshot_setViewport ==
  /\ argv.cmd = "screenshot" /\ pc = "viewport"
  /\ \/ /\ ~Truthy(argv.viewport)
        /\ pc' = "cookie"
        /\ UNCHANGED <<inputs, loop, engine, sinks, process, thrown, trace>>
     \/ /\ Truthy(argv.viewport)
        /\ ~formatMatch(argv.viewport.val).matched
        /\ exitCode' = 1
        /\ pc' = "exited"
        /\ UNCHANGED <<inputs, loop, engine, sinks, log, thrown, trace>>
     \/ /\ Truthy(argv.viewport)
        /\ formatMatch(argv.viewport.val).matched
        /\ \/ /\ page' = [page EXCEPT !.viewport =
                            [set |-> TRUE,
                             width |-> parseInt(formatMatch(argv.viewport.val).width),
                             height |-> parseInt(formatMatch(argv.viewport.val).height)]]
              /\ Called("setViewport", TRUE)
              /\ pc' = "cookie"
              /\ UNCHANGED <<inputs, loop, browser, launched, navigated,
                             pdfCalls, shotCalls, sinks, process, thrown>>
           \/ Fails("setViewport")

screenshot_setCookie ==
  /\ argv.cmd = "screenshot" /\ pc = "cookie"
  /\ \/ /\ ~Truthy(argv.cookie)
        /\ pc' = "goto"
        /\ UNCHANGED <<inputs, loop, engine, sinks, process, thrown, trace>>
     \/ /\ Truthy(argv.cookie)
        /\ buildCookies(argv).threw
        /\ Fails("buildCookies")
     \/ /\ Truthy(argv.cookie)
        /\ ~buildCookies(argv).threw
        /\ \/ /\ page' = [page EXCEPT
                            !.cookies = @ \o buildCookies(argv).value]
              /\ Called("setCookie", TRUE)
              /\ pc' = "goto"
              /\ UNCHANGED <<inputs, loop, browser, launched, navigated,
                             pdfCalls, shotCalls, sinks, process, thrown>>
           \/ Fails("setCookie")

screenshot_goto ==
  /\ argv.cmd = "screenshot" /\ pc = "goto"
  /\ \/ /\ navigated' = Append(navigated,
                          [url |-> targetUrl(argv.url),
                           options |-> buildNavigationOptions(argv)])
        /\ Called("goto", TRUE)
        /\ pc' = "screenshot"
        /\ UNCHANGED <<inputs, loop, browser, page, launched, pdfCalls,
                       shotCalls, sinks, process, thrown>>
     \/ Fails("goto")

screenshot_screenshot ==
  /\ argv.cmd = "screenshot" /\ pc = "screenshot"
  /\ \/ /\ shotCalls' = Append(shotCalls, screenshotOptions(argv))
        /\ files' = EngineWrites(screenshotOptions(argv).path)
        /\ Called("screenshot", TRUE)
        /\ pc' = "stdout"
        /\ UNCHANGED <<inputs, loop, browser, page, launched, navigated,
                       pdfCalls, stdout, process, thrown>>
     \/ /\ shotCalls' = Append(shotCalls, screenshotOptions(argv))
        /\ Called("screenshot", FALSE)
        /\ Raise
        /\ UNCHANGED <<inputs, loop, browser, page, launched, navigated,
                       pdfCalls, sinks, process>>

screenshot_stdout ==
  /\ argv.cmd = "screenshot" /\ pc = "stdout"
  /\ \/ /\ Truthy(argv.output)
        /\ pc' = "close"
        /\ UNCHANGED <<inputs, loop, engine, sinks, process, thrown, trace>>
     \/ /\ ~Truthy(argv.output)
        /\ \/ /\ stdout' = stdout + 1
              /\ Called("stdout.write", TRUE)
              /\ pc' = "close"
              /\ UNCHANGED <<inputs, loop, engine, files, process, thrown>>
           \/ Fails("stdout.write")

screenshot_close ==
  /\ argv.cmd = "screenshot" /\ pc = "close"
  /\ \/ /\ browser' = "closed"
        /\ Called("close", TRUE)
        /\ pc' = "return"
        /\ UNCHANGED <<inputs, loop, page, launched, navigated, pdfCalls,
                       shotCalls, sinks, process, thrown>>
     \/ Fails("close")

screenshot ==
  \/ screenshot_launch \/ screenshot_newPage \/ screenshot_setViewport
  \/ screenshot_setCookie \/ screenshot_goto \/ screenshot_screenshot
  \/ screenshot_stdout \/ screenshot_close

\* --------------------------------------------------------------- bulkPrint

\* const displayFooter = !!pdf["pdfObject"]["footerTemplate"]
displayFooter(pdf) == Truthy(pdf.pdfObject.footerTemplate)

\* The options object bulkPrint hands to page.pdf, the bottom margin never
\* taken from the entry (a variant of bulkPdfOptions).
bulkPdfOptionsSharedBottom(a, pdf) ==
  [path |-> pdf.tmpPDFFile, format |-> a.format,
   landscape |-> pdf.pdfObject.isLandscape, printBackground |-> TRUE,
   margin |-> [top |-> a.marginTop, right |-> a.marginRight,
               bottom |-> a.marginBottom, left |-> a.marginLeft],
   displayHeaderFooter |-> displayFooter(pdf),
   footerTemplate |-> unescapeQuotes(pdf.pdfObject.footerTemplate.val)]

\* The options object bulkPrint hands to page.pdf for one entry.
bulkPdfOptions(a, pdf) ==
  [path |-> pdf.tmpPDFFile, format |-> a.format,
   landscape |-> pdf.pdfObject.isLandscape, printBackground |-> TRUE,
   margin |-> [top |-> a.marginTop, right |-> a.marginRight,
               bottom |-> IF displayFooter(pdf)
                          THEN pdf.pdfObject.footerHeight
                          ELSE a.marginBottom,
               left |-> a.marginLeft],
   displayHeaderFooter |-> displayFooter(pdf),
   footerTemplate |-> unescapeQuotes(pdf.pdfObject.footerTemplate.val)]

\* fs.readFileSync(argv.batchFile); JSON.parse(rawdata)["data"]
bulkPrint_read ==
  /\ argv.cmd = "bulk-print" /\ pc = "read"
  /\ \/ /\ batchFile.kind = "unreadable"
        /\ Fails("readFileSync")
     \/ /\ batchFile.kind = "notjson"
        /\ Fails("JSON.parse")
     \/ /\ batchFile.kind \in {"nodata", "data"}
        /\ config' = [set |-> batchFile.kind = "data", val |-> batchFile.data]
        /\ pc' = "launch"
        /\ UNCHANGED <<inputs, idx, engine, sinks, process, thrown, trace>>

bulkPrint_launch ==
  /\ argv.cmd = "bulk-print" /\ pc = "launch"
  /\ \/ /\ browser' = "open"
        /\ launched' = Append(launched, buildLaunchOptions(argv))
        /\ Called("launch", TRUE)
        /\ pc' = "newPage"
        /\ UNCHANGED <<inputs, loop, page, navigated, pdfCalls, shotCalls,
                       sinks, process, thrown>>
     \/ Fails("launch")

bulkPrint_newPage ==
  /\ argv.cmd = "bulk-print" /\ pc = "newPage"
  /\ \/ /\ page' = [page EXCEPT !.open = TRUE]
        /\ Called("newPage", TRUE)
        /\ pc' = "for"
        /\ UNCHANGED <<inputs, loop, browser, launched, navigated, pdfCalls,
                       shotCalls, sinks, process, thrown>>
     \/ Fails("newPage")

\* for (const pdf of config): undefined is not iterable; otherwise the next
\* entry, or the end of the loop.
bulkPrint_for ==
  /\ argv.cmd = "bulk-print" /\ pc = "for"
  /\ \/ /\ ~config.set
        /\ Fails("for-of")
     \/ /\ config.set /\ idx < Len(config.val)
        /\ idx' = idx + 1
        /\ pc' = "goto"
        /\ UNCHANGED <<inputs, config, engine, sinks, process, thrown, trace>>
     \/ /\ config.set /\ idx >= Len(config.val)
        /\ pc' = "close"
        /\ UNCHANGED <<inputs, loop, engine, sinks, process, thrown, trace>>

bulkPrint_goto ==
  /\ argv.cmd = "bulk-print" /\ pc = "goto"
  /\ \/ /\ navigated' = Append(navigated,
                          [url |-> fileUrl(config.val[idx].htmlFile),
                           options |-> buildNavigationOptions(argv)])
        /\ Called("goto", TRUE)
        /\ pc' = "pdf"
        /\ UNCHANGED <<inputs, loop, browser, page, launched, pdfCalls,
                       shotCalls, sinks, process, thrown>>
     \/ Fails("goto")

bulkPrint_pdfNoSleep ==
  /\ argv.cmd = "bulk-print" /\ pc = "pdf"
  /\ pdfCalls' = Append(pdfCalls, bulkPdfOptions(argv, config.val[idx]))
  /\ files' = Append(files, config.val[idx].tmpPDFFile)
  /\ Called("pdf", TRUE)
  /\ pc' = "for"
  /\ UNCHANGED <<inputs, loop, browser, page, launched, navigated,
                 shotCalls, stdout, process, thrown>>

\* Building the options object throws when footerTemplate is missing
\* (undefined has no replace); otherwise page.pdf renders to pdfFile.
bulkPrint_pdf ==
  /\ argv.cmd = "bulk-print" /\ pc = "pdf"
  /\ \/ /\ ~config.val[idx].pdfObject.footerTemplate.set
        /\ Fails("footerTemplate.replace")
     \/ /\ config.val[idx].pdfObject.footerTemplate.set
        /\ \/ /\ pdfCalls' = Append(pdfCalls,
                               bulkPdfOptions(argv, config.val[idx]))
              /\ files' = Append(files, config.val[idx].tmpPDFFile)
              /\ Called("pdf", TRUE)
              /\ pc' = "sleep"
              /\ UNCHANGED <<inputs, loop, browser, page, launched, navigated,
                             shotCalls, stdout, process, thrown>>
           \/ /\ pdfCalls' = Append(pdfCalls,
                               bulkPdfOptions(argv, config.val[idx]))
              /\ Called("pdf", FALSE)
              /\ Raise
              /\ UNCHANGED <<inputs, loop, browser, page, launched, navigated,
                             shotCalls, sinks, process>>

\* await sleep(20)
bulkPrint_sleep ==
  /\ argv.cmd = "bulk-print" /\ pc = "sleep"
  /\ Called("sleep", TRUE)
  /\ pc' = "for"
  /\ UNCHANGED <<inputs, loop, engine, sinks, process, thrown>>

bulkPrint_close ==
  /\ argv.cmd = "bulk-print" /\ pc = "close"
  /\ \/ /\ browser' = "closed"
        /\ Called("close", TRUE)
        /\ pc' = "return"
        /\ UNCHANGED <<inputs, loop, page, launched, navigated, pdfCalls,
                       shotCalls, sinks, process, thrown>>
     \/ Fails("close")

bulkPrint ==
  \/ bulkPrint_read \/ bulkPrint_launch \/ bulkPrint_newPage \/ bulkPrint_for
  \/ bulkPrint_goto \/ bulkPrint_pdf \/ bulkPrint_sleep \/ bulkPrint_close

\* ---------------------------------------------------------------- handlers

handler_catchNoExit ==
  /\ pc = "catch"
  /\ log' = Append(log, IF argv.cmd = "screenshot"
                        THEN "Failed to take screenshot:"
                        ELSE "Failed to generate pdf:")
  /\ exitCode' = 0
  /\ pc' = "exited"
  /\ UNCHANGED <<inputs, loop, engine, sinks, thrown, trace>>

\* catch (err) { console.log(...); process.exit(1); }
handler_catch ==
  /\ pc = "catch"
  /\ log' = Append(log, IF argv.cmd = "screenshot"
                        THEN "Failed to take screenshot:"
                        ELSE "Failed to generate pdf:")
  /\ exitCode' = 1
  /\ pc' = "exited"
  /\ UNCHANGED <<inputs, loop, engine, sinks, thrown, trace>>

\* The awaited command returned: the handler ends and the process exits 0.
handler_return ==
  /\ pc = "return"
  /\ exitCode' = 0
  /\ pc' = "exited"
  /\ UNCHANGED <<inputs, loop, engine, sinks, log, thrown, trace>>

Next == print \/ screenshot \/ bulkPrint \/ handler_catch \/ handler_return

Spec == Init /\ [][Next]_vars

\* ------------------------------------------------------------ properties

Single == argv.cmd \in {"print", "screenshot"}
Bulk == argv.cmd = "bulk-print"
Exited == pc = "exited"

Render == IF argv.cmd = "screenshot" THEN "screenshot" ELSE "pdf"

\* Some call of op is in the trace / completed without error.
Invoked(op) == \E i \in DOMAIN trace : trace[i].op = op
Completed(op) == \E i \in DOMAIN trace : trace[i].op = op /\ trace[i].ok

\* Call j of the trace comes after a completed call of op.
After(j, op) == \E i \in 1..(j - 1) : trace[i].op = op /\ trace[i].ok

EngineOps == {"launch", "setCookie", "goto", "pdf", "screenshot", "close"}

Rank(op) ==
  CASE op = "launch" -> 1 [] op = "setCookie" -> 2 [] op = "goto" -> 3
    [] op \in {"pdf", "screenshot"} -> 4 [] op = "close" -> 5

HasColon(s) == \E i \in DOMAIN s : s[i] = ":"

Chars(s) == {s[i] : i \in DOMAIN s}

\* C1: in every command, a run never ends with a launched browser that was
\* not closed: once the process has exited the browser is not open.
C1_BrowserClosedOnEveryExit == Exited => browser # "open"

\* C2: in print and screenshot the engine calls come in the order launch,
\* setCookie (only with a cookie string), goto, render, close, each at most
\* once; no call follows one that failed; goto comes after the cookie
\* injection when there is a cookie; render comes only after a goto that
\* completed without error, and close only after the render.
C2_EngineStepsInOrder ==
  Single =>
    /\ \A i, j \in DOMAIN trace :
         (i < j /\ trace[i].op \in EngineOps /\ trace[j].op \in EngineOps)
           => Rank(trace[i].op) < Rank(trace[j].op)
    /\ \A i \in DOMAIN trace : i < Len(trace) => trace[i].ok
    /\ \A j \in DOMAIN trace :
         /\ trace[j].op \in {"pdf", "screenshot"}
              => trace[j].op = Render /\ After(j, "goto")
         /\ trace[j].op = "goto"
              => /\ After(j, "launch")
                 /\ Truthy(argv.cookie) => After(j, "setCookie")
         /\ trace[j].op = "setCookie" => Truthy(argv.cookie) /\ After(j, "launch")
         /\ trace[j].op = "close" => After(j, Render)

C2_Witness ==
  /\ Single /\ Exited /\ exitCode = 0 /\ Truthy(argv.cookie)
  /\ Completed("launch") /\ Completed("setCookie") /\ Completed("goto")
  /\ Completed(Render) /\ Completed("close")

\* C3: in bulk-print the entries are processed in manifest order, each at
\* most once and, in a run that ends without error, exactly once; the goto
\* of entry n+1 is made only directly after the settle delay of entry n, which
\* follows the written PDF of entry n; the files are written in manifest order.
C3_EntriesInManifestOrder ==
  Bulk =>
    /\ \A j \in DOMAIN trace :
         /\ trace[j].op = "goto" =>
              /\ trace[j].n \in 1..Len(config.val)
              /\ Len(files) >= trace[j].n - 1
              /\ trace[j].n = 1 =>
                   \A i \in 1..(j - 1) : trace[i].op \notin {"goto", "pdf", "sleep"}
              /\ trace[j].n > 1 =>
                   /\ j > 2
                   /\ trace[j - 1] = [op |-> "sleep", n |-> trace[j].n - 1, ok |-> TRUE]
                   /\ trace[j - 2] = [op |-> "pdf", n |-> trace[j].n - 1, ok |-> TRUE]
         /\ trace[j].op = "pdf" =>
              /\ j > 1
              /\ trace[j - 1] = [op |-> "goto", n |-> trace[j].n, ok |-> TRUE]
         /\ trace[j].op = "sleep" =>
              /\ j > 1
              /\ trace[j - 1] = [op |-> "pdf", n |-> trace[j].n, ok |-> TRUE]
    /\ \A i, j \in DOMAIN trace :
         (i < j /\ trace[i].op = trace[j].op
                /\ trace[i].op \in {"goto", "pdf", "sleep"})
           => trace[i].n < trace[j].n
    /\ Len(files) <= Len(config.val)
    /\ \A k \in DOMAIN files : files[k] = config.val[k].tmpPDFFile
    /\ Len(navigated) <= Len(config.val)
    /\ \A k \in DOMAIN navigated :
         navigated[k].url = [scheme |-> "file", text |-> config.val[k].htmlFile]
    /\ (Exited /\ exitCode = 0) =>
         /\ Len(files) = Len(config.val)
         /\ \A n \in DOMAIN config.val :
              \A op \in {"goto", "pdf", "sleep"} :
                Cardinality({i \in DOMAIN trace :
                               trace[i] = [op |-> op, n |-> n, ok |-> TRUE]}) = 1

C3_Witness ==
  /\ Bulk /\ Exited /\ exitCode = 0
  /\ Len(config.val) >= 2
  /\ config.val[1].tmpPDFFile # config.val[2].tmpPDFFile
  /\ Len(files) = Len(config.val)

\* C4: in print and screenshot the rendered bytes go to one sink only: with
\* no output path nothing is written to a file and the bytes are written to
\* standard output; with an output path the bytes are written to that path
\* and nothing is written to standard output.
C4_ExactlyOneSink ==
  Single =>
    /\ ~Truthy(argv.output) => files = <<>>
    /\ Truthy(argv.output) =>
         /\ stdout = 0
         /\ files = IF Completed(Render) THEN <<argv.output.val>> ELSE <<>>
    /\ stdout = IF Completed("stdout.write") THEN 1 ELSE 0
    /\ (pc \in {"close", "return"} \/ (Exited /\ exitCode = 0))
         => /\ Len(files) + stdout = 1
            /\ ~Truthy(argv.output) => stdout = 1

C4_Witness ==
  /\ argv.cmd = "print" /\ ~argv.output.set
  /\ Exited /\ exitCode = 0 /\ stdout = 1 /\ files = <<>>

\* C5: an error raised inside a command handler is caught once, logged once
\* with the command's prefix and ends the process with status 1; no call is
\* made twice; a run exits with status 1 only after an error was raised or
\* after the screenshot's fail-fast on a malformed viewport, so a run in
\* which nothing fails exits with status 0.
C5_ErrorsCaughtOnceExitOne ==
  /\ thrown \in {0, 1}
  /\ Len(log) <= thrown
  /\ pc = "catch" => thrown = 1 /\ log = <<>> /\ exitCode = -1
  /\ (Exited /\ thrown = 1) =>
       /\ exitCode = 1
       /\ log = <<IF argv.cmd = "screenshot" THEN "Failed to take screenshot:"
                  ELSE "Failed to generate pdf:">>
  /\ thrown = 1 => pc \in {"catch", "exited"} /\ ~trace[Len(trace)].ok
  /\ \A i, j \in DOMAIN trace :
       (i < j /\ trace[i].op = trace[j].op) => trace[i].n # trace[j].n
  /\ (Exited /\ exitCode = 1) =>
       \/ thrown = 1
       \/ /\ argv.cmd = "screenshot" /\ Truthy(argv.viewport)
          /\ \A i \in DOMAIN argv.viewport.val :
               ~(/\ argv.viewport.val[i] \in {"x", "X"}
                 /\ IsDigitRun(SubSeq(argv.viewport.val, 1, i - 1))
                 /\ IsDigitRun(SubSeq(argv.viewport.val, i + 1,
                                      Len(argv.viewport.val))))
  /\ Exited => exitCode \in {0, 1}

C5_Witness ==
  /\ Bulk /\ Exited /\ thrown = 1 /\ exitCode = 1
  /\ Completed("pdf") /\ ~trace[Len(trace)].ok /\ trace[Len(trace)].op = "goto"

\* <decimal digits> x-or-X <decimal digits>, stated without the match above.
WellFormedViewport(s) ==
  \E w, h \in 1..Len(s) :
    /\ w + 1 + h = Len(s)
    /\ \A i \in 1..w : s[i] \in Digits
    /\ s[w + 1] \in {"x", "X"}
    /\ \A i \in (w + 2)..Len(s) : s[i] \in Digits

\* The decimal value of the digits s[from..to].
RECURSIVE Decimal(_, _, _)
Decimal(s, from, to) ==
  IF to < from THEN 0
  ELSE 10 * Decimal(s, from, to - 1)
       + (CHOOSE d \in 0..9 : s[to] = <<"0", "1", "2", "3", "4", "5", "6", "7",
                                        "8", "9">>[d + 1])

SeparatorAt(s) == CHOOSE i \in DOMAIN s : s[i] \in {"x", "X"}

\* C6: in screenshot a supplied viewport string that is well formed is parsed
\* to integer width and height and applied before navigation; any other
\* supplied viewport string ends the process at once with status 1, with
\* nothing logged and no cookie injection, navigation, render or output write.
C6_ViewportParsedOrFailFast ==
  (argv.cmd = "screenshot" /\ argv.viewport.set) =>
    /\ WellFormedViewport(argv.viewport.val) =>
         /\ Invoked("goto") =>
              page.viewport =
                [set |-> TRUE,
                 width |-> Decimal(argv.viewport.val, 1,
                                   SeparatorAt(argv.viewport.val) - 1),
                 height |-> Decimal(argv.viewport.val,
                                    SeparatorAt(argv.viewport.val) + 1,
                                    Len(argv.viewport.val))]
    /\ ~WellFormedViewport(argv.viewport.val) =>
         /\ ~page.viewport.set
         /\ \A i \in DOMAIN trace : trace[i].op \in {"launch", "newPage"}
         /\ pc \notin {"cookie", "goto", "screenshot", "stdout", "close", "return"}
         /\ (Exited /\ thrown = 0) => exitCode = 1 /\ log = <<>>

\* C6 for the viewport strings the code takes as supplied, the non-empty ones.
C6_NonEmptyViewportParsedOrFailFast ==
  Truthy(argv.viewport) => C6_ViewportParsedOrFailFast

\* C7: every page.pdf call of bulk-print gets displayHeaderFooter = false and
\* the shared bottom margin when the entry's footer template is empty, and
\* displayHeaderFooter = true and the entry's footerHeight as bottom margin
\* when it is not; top, right and left margins and the format are the shared
\* ones.
C7_BulkFooterCoupling ==
  Bulk =>
    /\ Len(pdfCalls) = Cardinality({i \in DOMAIN trace : trace[i].op = "pdf"})
    /\ \A k \in DOMAIN pdfCalls :
         LET entry == config.val[k]
             template == entry.pdfObject.footerTemplate
             options == pdfCalls[k]
         IN /\ template.set
            /\ template.val = <<>> =>
                 /\ options.displayHeaderFooter = FALSE
                 /\ options.margin.bottom = argv.marginBottom
            /\ template.val # <<>> =>
                 /\ options.displayHeaderFooter = TRUE
                 /\ options.margin.bottom = entry.pdfObject.footerHeight
            /\ options.margin.top = argv.marginTop
            /\ options.margin.right = argv.marginRight
            /\ options.margin.left = argv.marginLeft
            /\ options.format = argv.format
            /\ options.path = entry.tmpPDFFile

C7_Witness ==
  /\ Bulk /\ Len(pdfCalls) >= 2
  /\ config.val[1].pdfObject.footerTemplate.val = <<>>
  /\ config.val[2].pdfObject.footerTemplate.val # <<>>
  /\ pdfCalls[2].margin.bottom # argv.marginBottom

\* C8: buildCookies returns, for a cookie string with a ':', one cookie whose
\* name is the text before the first ':' and whose value is all the text after
\* it, and throws, returning no cookie, for a string with no ':'; the cookies
\* set on the page are the ones it returned.
C8_BuildCookiesSplitsAtFirstColon ==
  argv.cookie.set =>
    LET s == argv.cookie.val
        r == buildCookies(argv)
    IN /\ HasColon(s) =>
            /\ ~r.threw
            /\ Len(r.value) = 1
            /\ ":" \notin Chars(r.value[1].name)
            /\ r.value[1].name \o <<":">> \o r.value[1].value = s
            /\ r.value[1].url = argv.url
       /\ ~HasColon(s) => r.threw /\ r.value = <<>>
       /\ Completed("setCookie") =>
            /\ HasColon(s)
            /\ Len(page.cookies) = 1
            /\ ":" \notin Chars(page.cookies[1].name)
            /\ page.cookies[1].name \o <<":">> \o page.cookies[1].value = s
       /\ ~Completed("setCookie") => page.cookies = <<>>
       /\ (Invoked("buildCookies") /\ ~Completed("buildCookies")) => ~HasColon(s)
       /\ (Truthy(argv.cookie) /\ ~HasColon(s)) => ~Invoked("goto")

C8_Witness ==
  /\ argv.cookie.val = <<"a", ":", ":">>
  /\ Completed("setCookie")
  /\ page.cookies[1].name = <<"a">> /\ page.cookies[1].value = <<":">>

\* C9 as stated: in print, a non-empty footer template makes every page.pdf
\* call receive displayHeaderFooter = true, whatever the flag.
C9_FooterForcesHeaderFooter ==
  argv.cmd = "print" =>
    \A k \in DOMAIN pdfCalls :
      argv.footerTemplate # <<>> => pdfCalls[k].displayHeaderFooter = TRUE

\* C9 amended: in print, page.pdf receives displayHeaderFooter equal to the
\* --display-header-footer flag, whatever the footer template, and the
\* footer template as given.
C9_HeaderFooterFollowsFlag ==
  argv.cmd = "print" =>
    \A k \in DOMAIN pdfCalls :
      /\ pdfCalls[k].displayHeaderFooter = argv.displayHeaderFooter
      /\ pdfCalls[k].footerTemplate = argv.footerTemplate

C9_Witness ==
  /\ argv.cmd = "print" /\ argv.footerTemplate # <<>>
  /\ ~argv.displayHeaderFooter
  /\ Len(pdfCalls) = 1 /\ ~pdfCalls[1].displayHeaderFooter

\* C10: the launch options hold both --no-sandbox and --disable-setuid-sandbox
\* when sandbox = false and neither when sandbox = true, never exactly one.
C10_SandboxFlagsTogether ==
  \A k \in DOMAIN launched :
    LET flags == Chars(launched[k].args)
    IN /\ argv.sandbox = FALSE
            => {"--no-sandbox", "--disable-setuid-sandbox"} \subseteq flags
       /\ argv.sandbox = TRUE
            => flags \cap {"--no-sandbox", "--disable-setuid-sandbox"} = {}
       /\ ("--no-sandbox" \in flags) <=> ("--disable-setuid-sandbox" \in flags)

C10_Witness ==
  /\ argv.sandbox = FALSE /\ Len(launched) = 1
  /\ launched[1].args = <<"--no-sandbox", "--disable-setuid-sandbox">>

====
